---------------------------- MODULE Spec2Model ----------------------------
(***************************************************************************)
(* A model of package transform (transform.go): the handler registry, the  *)
(* rule parser, the expansion engine with its lookup chain and the         *)
(* Transform pipeline.                                                     *)
(*                                                                         *)
(* Go strings are sequences of one-character strings, so that TrimSpace,   *)
(* ToLower, SplitN, Split and slicing are computed and not assumed.  A Go  *)
(* offset is 0-based and a slice s[a:b] is half-open; Slice keeps that     *)
(* convention.                                                             *)
(***************************************************************************)
EXTENDS Naturals, Sequences, FiniteSets, TLC

VARIABLES Handlers, Lookups, Rules, closures, env, last

vars == <<Handlers, Lookups, Rules, closures, env, last>>

---------------------------------------------------------------------------
(* Package strings, on sequences of characters.                            *)

UpperLetters ==
  {"A", "B", "C", "D", "E", "F", "G", "H", "I", "J", "K", "L", "M",
   "N", "O", "P", "Q", "R", "S", "T", "U", "V", "W", "X", "Y", "Z"}

LowerLetters ==
  {"a", "b", "c", "d", "e", "f", "g", "h", "i", "j", "k", "l", "m",
   "n", "o", "p", "q", "r", "s", "t", "u", "v", "w", "x", "y", "z"}

Digits == {"0", "1", "2", "3", "4", "5", "6", "7", "8", "9"}

WhiteSpace == {" ", "\t", "\n", "\r"}

Range(q) == {q[i] : i \in DOMAIN q}

\* The lower-case letter of each upper-case one, and the reverse.
LowerOf ==
  "A" :> "a" @@ "B" :> "b" @@ "C" :> "c" @@ "D" :> "d" @@ "E" :> "e" @@
  "F" :> "f" @@ "G" :> "g" @@ "H" :> "h" @@ "I" :> "i" @@ "J" :> "j" @@
  "K" :> "k" @@ "L" :> "l" @@ "M" :> "m" @@ "N" :> "n" @@ "O" :> "o" @@
  "P" :> "p" @@ "Q" :> "q" @@ "R" :> "r" @@ "S" :> "s" @@ "T" :> "t" @@
  "U" :> "u" @@ "V" :> "v" @@ "W" :> "w" @@ "X" :> "x" @@ "Y" :> "y" @@
  "Z" :> "z"

UpperOf ==
  "a" :> "A" @@ "b" :> "B" @@ "c" :> "C" @@ "d" :> "D" @@ "e" :> "E" @@
  "f" :> "F" @@ "g" :> "G" @@ "h" :> "H" @@ "i" :> "I" @@ "j" :> "J" @@
  "k" :> "K" @@ "l" :> "L" @@ "m" :> "M" @@ "n" :> "N" @@ "o" :> "O" @@
  "p" :> "P" @@ "q" :> "Q" @@ "r" :> "R" @@ "s" :> "S" @@ "t" :> "T" @@
  "u" :> "U" @@ "v" :> "V" @@ "w" :> "W" @@ "x" :> "X" @@ "y" :> "Y" @@
  "z" :> "Z"

LowerChar(c) == IF c \in UpperLetters THEN LowerOf[c] ELSE c

UpperChar(c) == IF c \in LowerLetters THEN UpperOf[c] ELSE c

ToLower(s) == [i \in 1..Len(s) |-> LowerChar(s[i])]

ToUpper(s) == [i \in 1..Len(s) |-> UpperChar(s[i])]

\* s[a:b] with Go's 0-based half-open offsets.
Slice(s, a, b) == SubSeq(s, a + 1, b)

\* Is sub found in s at offset p?
HasAt(s, p, sub) ==
  /\ p + Len(sub) <= Len(s)
  /\ Slice(s, p, p + Len(sub)) = sub

RECURSIVE IndexFrom(_, _, _)
IndexFrom(s, sub, p) ==
  IF p + Len(sub) > Len(s) THEN Len(s) + 1
  ELSE IF HasAt(s, p, sub) THEN p
  ELSE IndexFrom(s, sub, p + 1)

\* strings.Index: the first offset of sub in s, Len(s) + 1 standing for -1.
Index(s, sub) == IndexFrom(s, sub, 0)

Contains(s, sub) == Index(s, sub) <= Len(s)

TrimSpace(s) ==
  LET keep == {i \in 1..Len(s) : s[i] \notin WhiteSpace}
  IN IF keep = {} THEN <<>>
     ELSE LET lo == CHOOSE i \in keep : \A j \in keep : i <= j
              hi == CHOOSE i \in keep : \A j \in keep : j <= i
          IN SubSeq(s, lo, hi)

\* strings.SplitN(s, sep, 2) for a one-character separator.
SplitN2(s, sep) ==
  LET p == Index(s, <<sep>>)
  IN IF p > Len(s) THEN <<s>>
     ELSE <<Slice(s, 0, p), Slice(s, p + 1, Len(s))>>

RECURSIVE Split(_, _)
\* strings.Split(s, sep) for a one-character separator.
Split(s, sep) ==
  LET p == Index(s, <<sep>>)
  IN IF p > Len(s) THEN <<s>>
     ELSE <<Slice(s, 0, p)>> \o Split(Slice(s, p + 1, Len(s)), sep)

RECURSIVE ReplaceAll(_, _, _)
\* strings.ReplaceAll(s, old, new) for a non-empty old.
ReplaceAll(s, old, new) ==
  LET p == Index(s, old)
  IN IF p > Len(s) THEN s
     ELSE Slice(s, 0, p) \o new
            \o ReplaceAll(Slice(s, p + Len(old), Len(s)), old, new)

---------------------------------------------------------------------------
(* Errors: the message of errors.New split into its fixed text and the     *)
(* text appended to it, and the messages errors.Wrap put in front, split   *)
(* the same way.                                                           *)

NilErr == [msg |-> "nil", arg |-> <<>>, ctx |-> <<>>]

NewErr(m, a) == [msg |-> m, arg |-> a, ctx |-> <<>>]

Wrap(e, m, a) == [e EXCEPT !.ctx = <<[msg |-> m, arg |-> a]>> \o @]

---------------------------------------------------------------------------
(* Package regexp, for the patterns the model compiles.  A pattern is a    *)
(* literal opening, optional white space, a key of one or more characters  *)
(* of a class, optional white space and a literal closing.  The key class, *)
(* white space and the first closing character are pairwise disjoint, so   *)
(* the greedy scan below is the leftmost-first match.                      *)

ShellVar ==
  <<"(", "?", "i", ")", "\\", "$", "{", "\\", "s", "*", "(", "?", "P", "<",
    "k", "e", "y", ">", "[", "A", "-", "Z", "0", "-", "9", "_", "]", "+", ")",
    "\\", "s", "*", "}">>

ColonVar ==
  <<":", "(", "?", "P", "<", "k", "e", "y", ">", "[", "A", "-", "Z", "]", "+",
    ")", ":">>

NoKeyVar == <<"\\", "$", "{", "(", "[", "A", "-", "Z", "]", "+", ")", "}">>

BadRegex == <<"(", "?", "P", "<", "k", "e", "y", ">">>

KeyGroup == <<"(", "?", "P", "<", "k", "e", "y", ">">>

Count(s, c) == Cardinality({i \in 1..Len(s) : s[i] = c})

\* (?i)[A-Z0-9_]
ShellVarClass ==
  {c \in UpperLetters \cup LowerLetters \cup Digits \cup {"_"} : TRUE}

\* The matcher of each source that compiles.
Matchers ==
  {[src |-> ShellVar, open |-> <<"$", "{">>, ws |-> TRUE,
    class |-> ShellVarClass,
    close |-> <<"}">>],
   [src |-> ColonVar, open |-> <<":">>, ws |-> FALSE,
    class |-> UpperLetters, close |-> <<":">>],
   [src |-> NoKeyVar, open |-> <<"$", "{">>, ws |-> FALSE,
    class |-> UpperLetters, close |-> <<"}">>]}

\* regexp.Compile: an error for a source with an unclosed group, else the
\* compiled expression, which the model names by its source (re.String()).
Compile(src) ==
  IF Count(src, "(") # Count(src, ")")
    THEN [ok |-> FALSE, re |-> <<>>,
          err |-> NewErr("error parsing regexp: missing closing )", src)]
    ELSE [ok |-> TRUE, re |-> src, err |-> NilErr]

\* re.SubexpIndex("key"): the patterns have one group, so 1 or -1 (here 0).
SubexpIndex(re) == IF Contains(re, KeyGroup) THEN 1 ELSE 0

RECURSIVE SkipRun(_, _, _)
\* The offset after the longest run of characters of set from offset p.
SkipRun(s, p, set) ==
  IF p < Len(s) /\ s[p + 1] \in set THEN SkipRun(s, p + 1, set) ELSE p

\* The end of a match attempt of matcher mt at offset p whose key starts at
\* offset k0 and ends at k1.
MatchKey(mt, s, p, k0, k1) ==
  LET c == IF mt.ws THEN SkipRun(s, k1, WhiteSpace) ELSE k1
  IN [ok |-> k1 > k0 /\ HasAt(s, c, mt.close),
      m  |-> <<p, c + Len(mt.close), k0, k1>>]

\* The match attempt at offset p once the opening matched, the key starting
\* at offset k0.
MatchOpen(mt, s, p, k0) == MatchKey(mt, s, p, k0, SkipRun(s, k0, mt.class))

\* One match attempt of matcher mt at offset p: whether it matched, and
\* <<m0, m1, k0, k1>> as Go reports a match and its key group.
MatchAt(mt, s, p) ==
  IF ~HasAt(s, p, mt.open) THEN [ok |-> FALSE, m |-> <<>>]
  ELSE MatchOpen(mt, s, p,
                 IF mt.ws THEN SkipRun(s, p + Len(mt.open), WhiteSpace)
                 ELSE p + Len(mt.open))

RECURSIVE FindFrom(_, _, _)

\* The matches from offset p on, r being the attempt at p: the search goes on
\* where a match ended.
FindNext(mt, s, p, r) ==
  IF r.ok THEN <<r.m>> \o FindFrom(mt, s, r.m[2])
  ELSE FindFrom(mt, s, p + 1)

FindFrom(mt, s, p) ==
  IF p >= Len(s) THEN <<>> ELSE FindNext(mt, s, p, MatchAt(mt, s, p))

\* re.FindAllStringSubmatchIndex(s, -1)
FindAllStringSubmatchIndex(re, s) ==
  FindFrom(CHOOSE mt \in Matchers : mt.src = re, s, 0)

---------------------------------------------------------------------------
(* Lookup functions.                                                       *)

NoMap == [k \in {} |-> <<>>]

LookupHandlers(m) == [kind |-> "Map", m |-> m, val |-> <<>>]

LookupEnv == [kind |-> "Env", m |-> NoMap, val |-> <<>>]

LookupStatic(val) == [kind |-> "Static", m |-> NoMap, val |-> val]

Getenv(ev, name) == IF name \in DOMAIN ev THEN ev[name] ELSE <<>>

\* f(name) for a LookupFunc f: the value and the found flag.
CallLookup(f, name, ev) ==
  CASE f.kind = "Map" ->
         IF name \in DOMAIN f.m THEN [v |-> f.m[name], ok |-> TRUE]
         ELSE [v |-> <<>>, ok |-> FALSE]
    [] f.kind = "Env" ->
         IF Getenv(ev, name) # <<>> THEN [v |-> Getenv(ev, name), ok |-> TRUE]
         ELSE [v |-> <<>>, ok |-> FALSE]
    [] f.kind = "Static" ->
         IF Contains(f.val, <<"%", "s">>)
           THEN [v |-> ReplaceAll(f.val, <<"%", "s">>, name), ok |-> TRUE]
           ELSE [v |-> f.val, ok |-> TRUE]

RECURSIVE ResolveFrom(_, _, _, _)

\* ResolveStep without the break: a later lookup that finds the key overrides.
ResolveStepNoBreak(ff, i, key, ev, r) ==
  LET rest == ResolveFrom(ff, i + 1, key, ev)
  IN IF r.ok /\ rest.val = <<>>
       THEN [val |-> r.v, consulted |-> rest.consulted]
       ELSE rest

\* The inner loop once lookup i returned r.
ResolveStep(ff, i, key, ev, r) ==
  IF r.ok THEN [val |-> r.v, consulted |-> i]
  ELSE ResolveFrom(ff, i + 1, key, ev)

\* The inner loop of the expansion function: val, and how many lookups ran.
ResolveFrom(ff, i, key, ev) ==
  IF i > Len(ff) THEN [val |-> <<>>, consulted |-> Len(ff)]
  ELSE ResolveStep(ff, i, key, ev, CallLookup(ff[i], key, ev))

Resolve(ff, key, ev) == ResolveFrom(ff, 1, key, ev)

---------------------------------------------------------------------------
(* Transformation functions.  A TransformFunc is a built-in method, a      *)
(* function of the caller (User), nil, or the closure Expand returned,     *)
(* named by its place in closures, where its captured variables live.      *)

Fn(kind) == [kind |-> kind, id |-> 0]

NilFn == Fn("nil")

UserFn(n) == [kind |-> "User", id |-> n]

ExpandFn(n) == [kind |-> "Expand", id |-> n]

NOP(s) == s

Trim(s) == TrimSpace(s)

Downcase(s) == ToLower(s)

Upcase(s) == ToUpper(s)

Capitalize(s) ==
  IF s = <<>> THEN <<>>
  ELSE ToUpper(Slice(s, 0, 1)) \o ToLower(Slice(s, 1, Len(s)))

\* The caller's functions: 1 always fails, 2 rejects the empty string,
\* any other appends "!".
UserCall(n, s) ==
  CASE n = 1 -> [out |-> <<>>, err |-> NewErr("stub failed", <<>>)]
    [] n = 2 -> IF s = <<>> THEN [out |-> <<>>, err |-> NewErr("empty input", <<>>)]
                ELSE [out |-> s, err |-> NilErr]
    [] OTHER -> [out |-> s \o <<"!">>, err |-> NilErr]

RECURSIVE ExpandLoop(_, _, _, _, _, _, _, _, _)

\* ExpandStep replacing the span of the key group, not of the whole match.
ExpandStepKeySpan(s, matches, idx, ff, ev, i, pos, s2, trace, key, r) ==
  IF r.val = <<>>
    THEN [out |-> <<>>, err |-> NewErr("could not resolve variable: ", key),
          trace |-> Append(trace, [key |-> key, val |-> r.val,
                                   consulted |-> r.consulted])]
    ELSE ExpandLoop(s, matches, idx, ff, ev, i + 1, matches[i][idx * 2 + 2],
                    s2 \o Slice(s, pos, matches[i][idx * 2 + 1]) \o r.val,
                    Append(trace, [key |-> key, val |-> r.val,
                                   consulted |-> r.consulted]))

\* ExpandStep leaving an unresolved match as it is instead of failing.
ExpandStepSkip(s, matches, idx, ff, ev, i, pos, s2, trace, key, r) ==
  IF r.val = <<>>
    THEN ExpandLoop(s, matches, idx, ff, ev, i + 1, matches[i][2],
                    s2 \o Slice(s, pos, matches[i][2]),
                    Append(trace, [key |-> key, val |-> r.val,
                                   consulted |-> r.consulted]))
    ELSE ExpandLoop(s, matches, idx, ff, ev, i + 1, matches[i][2],
                    s2 \o Slice(s, pos, matches[i][1]) \o r.val,
                    Append(trace, [key |-> key, val |-> r.val,
                                   consulted |-> r.consulted]))

\* The body of the loop for match i once its key was resolved to r.
ExpandStep(s, matches, idx, ff, ev, i, pos, s2, trace, key, r) ==
  IF r.val = <<>>
    THEN [out |-> <<>>, err |-> NewErr("could not resolve variable: ", key),
          trace |-> Append(trace, [key |-> key, val |-> r.val,
                                   consulted |-> r.consulted])]
    ELSE ExpandLoop(s, matches, idx, ff, ev, i + 1, matches[i][2],
                    s2 \o Slice(s, pos, matches[i][1]) \o r.val,
                    Append(trace, [key |-> key, val |-> r.val,
                                   consulted |-> r.consulted]))

\* The body of the loop for match i, whose key group holds key.
ExpandKey(s, matches, idx, ff, ev, i, pos, s2, trace, key) ==
  ExpandStep(s, matches, idx, ff, ev, i, pos, s2, trace, key,
             Resolve(ff, key, ev))

\* The loop over matches of the expansion function, from match i on.  trace
\* lists, for each key looked up, the value found and how many lookups ran.
ExpandLoop(s, matches, idx, ff, ev, i, pos, s2, trace) ==
  IF i > Len(matches)
    THEN [out |-> s2 \o Slice(s, pos, Len(s)), err |-> NilErr, trace |-> trace]
    ELSE ExpandKey(s, matches, idx, ff, ev, i, pos, s2, trace,
                   Slice(s, matches[i][idx * 2 + 1], matches[i][idx * 2 + 2]))

\* The lookups the expansion function leaves in its captured ff.
CapturedFF(ff, lk) == IF Len(ff) = 0 THEN lk ELSE ff

\* What a call returns that looked keys up in ff and got r from the loop.
ExpandDone(ff, r) == [out |-> r.out, err |-> r.err, ff |-> ff, trace |-> r.trace]

\* A call that found matches, with ff what it leaves in the captured variable.
ExpandWith(cl, s, matches, ff, ev) ==
  ExpandDone(ff, ExpandLoop(s, matches, cl.idx, ff, ev, 1, 0, <<>>, <<>>))

\* A call of the expansion function once the matches are found.
ExpandMatched(cl, s, lk, ev, matches) ==
  IF Len(matches) = 0
    THEN [out |-> s, err |-> NilErr, ff |-> cl.ff, trace |-> <<>>]
    ELSE ExpandWith(cl, s, matches, CapturedFF(cl.ff, lk), ev)

\* One call of the function Expand returned: cl holds re, idx and the captured
\* ff (given keeps what Expand was given), lk is t.Lookups at the call.  The
\* ff returned is what the call leaves in the captured variable.
ExpandCall(cl, s, lk, ev) ==
  ExpandMatched(cl, s, lk, ev, FindAllStringSubmatchIndex(cl.re, s))

\* Expand(re, ff...): the closure, or the error for a pattern without key.
Expand(re, ff) ==
  LET idx == SubexpIndex(re)
  IN IF idx = 0
       THEN [ok |-> FALSE, cl |-> <<>>,
             err |-> NewErr("regexp is missing named parenthesized subexpression (?P<key>...): ",
                            re)]
       ELSE [ok |-> TRUE, err |-> NilErr,
             cl |-> [re |-> re, idx |-> idx, given |-> ff, ff |-> ff]]

\* What f(s) is for the caller's function f once it returned r.
UserDone(cls, r) == [out |-> r.out, err |-> r.err, cls |-> cls]

\* What f(s) is for closure id once it returned r, with closures after it.
ClosureDone(id, cls, r) ==
  [out |-> r.out, err |-> r.err, cls |-> [cls EXCEPT ![id].ff = r.ff]]

\* f(s) for a non-nil TransformFunc f; cls is closures after the call.
CallFn(f, s, cls, lk, ev) ==
  CASE f.kind = "NOP"        -> [out |-> NOP(s), err |-> NilErr, cls |-> cls]
    [] f.kind = "Trim"       -> [out |-> Trim(s), err |-> NilErr, cls |-> cls]
    [] f.kind = "Downcase"   -> [out |-> Downcase(s), err |-> NilErr, cls |-> cls]
    [] f.kind = "Upcase"     -> [out |-> Upcase(s), err |-> NilErr, cls |-> cls]
    [] f.kind = "Capitalize" -> [out |-> Capitalize(s), err |-> NilErr, cls |-> cls]
    [] f.kind = "User"       -> UserDone(cls, UserCall(f.id, s))
    [] f.kind = "Expand"     ->
         ClosureDone(f.id, cls, ExpandCall(cls[f.id], s, lk, ev))

RECURSIVE TransformLoop(_, _, _, _, _, _, _)

\* TransformStep with the return on an error lost: the first error is still
\* what comes back, but the loop runs on.
TransformStepNoReturn(ff, i, s, r, lk, ev, calls) ==
  IF r.err # NilErr
    THEN LET rest == TransformLoop(ff, i + 1, s, r.cls, lk, ev, calls)
         IN [out |-> <<>>, err |-> Wrap(r.err, "rule", <<>>),
             cls |-> rest.cls, calls |-> rest.calls]
    ELSE TransformLoop(ff, i + 1, r.out, r.cls, lk, ev, calls)

\* The body of the loop of Transform once ff[i](s) returned r.
TransformStep(ff, i, s, r, lk, ev, calls) ==
  IF r.err # NilErr
    THEN [out |-> <<>>, err |-> Wrap(r.err, "rule", <<>>), cls |-> r.cls,
          calls |-> calls]
    ELSE TransformLoop(ff, i + 1, r.out, r.cls, lk, ev, calls)

\* The loop of Transform from position i on; calls lists the positions invoked.
TransformLoop(ff, i, s, cls, lk, ev, calls) ==
  IF i > Len(ff) THEN [out |-> s, err |-> NilErr, cls |-> cls, calls |-> calls]
  ELSE IF ff[i] = NilFn
    THEN TransformLoop(ff, i + 1, s, cls, lk, ev, calls)
    ELSE TransformStep(ff, i, s, CallFn(ff[i], s, cls, lk, ev), lk, ev,
                       Append(calls, i))

\* Effective with the arguments run after the default rules.
EffectiveAfterRules(ff, rules) == IF Len(ff) = 0 THEN rules ELSE rules \o ff

\* The sequence Transform runs: its arguments, or t.Rules when there are none.
Effective(ff, rules) == IF Len(ff) = 0 THEN rules ELSE ff

\* t.Transform(s, ff...)
Transform(s, ff, rules, cls, lk, ev) ==
  TransformLoop(Effective(ff, rules), 1, s, cls, lk, ev, <<>>)

---------------------------------------------------------------------------
(* The handler registry and the rule parser.                               *)

TagExpand == <<"e", "x", "p", "a", "n", "d">>

\* Registered storing the tag as given, without lowercasing it.
RegisteredAsGiven(h, tag, f) ==
  IF tag = <<>> THEN h
  ELSE IF f = NilFn
    THEN [x \in DOMAIN h \ {tag} |-> h[x]]
    ELSE [x \in DOMAIN h \cup {tag} |-> IF x = tag THEN f ELSE h[x]]

\* The registry the option Handler(tag, f) leaves, applied to registry h.
Registered(h, tag, f) ==
  IF tag = <<>> THEN h
  ELSE LET k == ToLower(tag)
       IN IF f = NilFn
            THEN [x \in DOMAIN h \ {k} |-> h[x]]
            ELSE [x \in DOMAIN h \cup {k} |-> IF x = k THEN f ELSE h[x]]

\* ParseStringRule with the case "expand" tried before the registry.
ParseStringRuleExpandFirst(rule, h, cls) ==
  LET parts == SplitN2(rule, ":")
      tag   == ToLower(TrimSpace(parts[1]))
      f     == IF tag \in DOMAIN h THEN h[tag] ELSE NilFn
  IN IF tag = TagExpand
       THEN IF Len(parts) = 1
              THEN [f |-> NilFn, err |-> NewErr("expand: missing regex", <<>>),
                    cls |-> cls]
            ELSE LET c == Compile(parts[2])
                 IN IF ~c.ok
                      THEN [f |-> NilFn, err |-> Wrap(c.err, "regexp: ", parts[2]),
                            cls |-> cls]
                    ELSE LET e == Expand(c.re, <<>>)
                         IN IF ~e.ok
                              THEN [f |-> NilFn, err |-> e.err, cls |-> cls]
                              ELSE [f |-> ExpandFn(Len(cls) + 1), err |-> NilErr,
                                    cls |-> Append(cls, e.cl)]
     ELSE IF f # NilFn THEN [f |-> f, err |-> NilErr, cls |-> cls]
     ELSE [f |-> NilFn, err |-> NewErr("unknown transform: ", tag), cls |-> cls]

\* t.ParseStringRule(rule) with registry h: the function, the error, and the
\* closures after it, one more when Expand built a function.
ParseStringRule(rule, h, cls) ==
  LET parts == SplitN2(rule, ":")
      tag   == ToLower(TrimSpace(parts[1]))
      f     == IF tag \in DOMAIN h THEN h[tag] ELSE NilFn
  IN IF f # NilFn THEN [f |-> f, err |-> NilErr, cls |-> cls]
     ELSE IF tag = TagExpand
       THEN IF Len(parts) = 1
              THEN [f |-> NilFn, err |-> NewErr("expand: missing regex", <<>>),
                    cls |-> cls]
            ELSE LET c == Compile(parts[2])
                 IN IF ~c.ok
                      THEN [f |-> NilFn, err |-> Wrap(c.err, "regexp: ", parts[2]),
                            cls |-> cls]
                    ELSE LET e == Expand(c.re, <<>>)
                         IN IF ~e.ok
                              THEN [f |-> NilFn, err |-> e.err, cls |-> cls]
                              ELSE [f |-> ExpandFn(Len(cls) + 1), err |-> NilErr,
                                    cls |-> Append(cls, e.cl)]
     ELSE [f |-> NilFn, err |-> NewErr("unknown transform: ", tag), cls |-> cls]

RECURSIVE SubRules(_)
\* The sub-rules the two loops of AddStringRules visit, in their order.
SubRules(rules) ==
  IF rules = <<>> THEN <<>>
  ELSE Split(Head(rules), ",") \o SubRules(Tail(rules))

RECURSIVE AddLoopNoSkip(_, _, _, _, _, _)
\* AddLoop without the test for an empty sub-rule.
AddLoopNoSkip(subs, i, h, rs, cls, parsed) ==
  IF i > Len(subs) THEN [err |-> NilErr, rules |-> rs, cls |-> cls, parsed |-> parsed]
  ELSE LET s == TrimSpace(subs[i])
           r == ParseStringRule(s, h, cls)
       IN IF r.err # NilErr
            THEN [err |-> r.err, rules |-> rs, cls |-> r.cls,
                  parsed |-> Append(parsed, s)]
            ELSE AddLoopNoSkip(subs, i + 1, h, Append(rs, r.f), r.cls,
                               Append(parsed, s))

RECURSIVE AddLoop(_, _, _, _, _, _)
\* The loops of AddStringRules from sub-rule i on: rs is t.Rules, parsed lists
\* the sub-rules given to ParseStringRule.
AddLoop(subs, i, h, rs, cls, parsed) ==
  IF i > Len(subs) THEN [err |-> NilErr, rules |-> rs, cls |-> cls, parsed |-> parsed]
  ELSE LET s == TrimSpace(subs[i])
       IN IF s = <<>> THEN AddLoop(subs, i + 1, h, rs, cls, parsed)
          ELSE LET r == ParseStringRule(s, h, cls)
               IN IF r.err # NilErr
                    THEN [err |-> r.err, rules |-> rs, cls |-> r.cls,
                          parsed |-> Append(parsed, s)]
                    ELSE AddLoop(subs, i + 1, h, Append(rs, r.f), r.cls,
                                 Append(parsed, s))

\* t.AddStringRules(rules...)
AddStringRules(rules, h, rs, cls) == AddLoop(SubRules(rules), 1, h, rs, cls, <<>>)

---------------------------------------------------------------------------
(* The Transform t: its fields, the closures Expand has returned, the      *)
(* process environment, and a record of the last operation with what it    *)
(* was given and what it returned.                                         *)

MaxRules == 3

MaxClosures == 1

MaxLookups == 2

Builtins ==
  [tag \in {<<>>, <<"n", "o", "p">>, <<"t", "r", "i", "m">>,
            <<"d", "o", "w", "n", "c", "a", "s", "e">>,
            <<"u", "p", "c", "a", "s", "e">>,
            <<"c", "a", "p", "i", "t", "a", "l", "i", "z", "e">>} |->
     CASE tag = <<>> -> Fn("NOP")
       [] tag = <<"n", "o", "p">> -> Fn("NOP")
       [] tag = <<"t", "r", "i", "m">> -> Fn("Trim")
       [] tag = <<"d", "o", "w", "n", "c", "a", "s", "e">> -> Fn("Downcase")
       [] tag = <<"u", "p", "c", "a", "s", "e">> -> Fn("Upcase")
       [] OTHER -> Fn("Capitalize")]

Envs == {[k \in {<<"X">>} |-> <<"e">>]}

\* New(): Reset on a zero Transform, with no options.
Init ==
  /\ Handlers = Builtins
  /\ Lookups = <<>>
  /\ Rules = <<>>
  /\ closures = <<>>
  /\ env \in Envs
  /\ last = [op |-> "New"]

\* The option Rule(ff...) applied to t.
Rule(ff) ==
  /\ Len(Rules) + Len(ff) <= MaxRules
  /\ Rules' = Rules \o ff
  /\ last' = [op |-> "Rule"]
  /\ UNCHANGED <<Handlers, Lookups, closures, env>>

\* t.ResetRules(ff...)
ResetRules(ff) ==
  /\ Rules' = ff
  /\ last' = [op |-> "ResetRules"]
  /\ UNCHANGED <<Handlers, Lookups, closures, env>>

\* t.Transform(s, ff...) returned r.
TransformReturn(s, ff, r) ==
  /\ closures' = r.cls
  /\ last' = [op |-> "Transform", s |-> s, ff |-> ff, rules |-> Rules,
              out |-> r.out, err |-> r.err, calls |-> r.calls]
  /\ UNCHANGED <<Handlers, Lookups, Rules, env>>

\* t.Transform(s, ff...), called by the user.
TransformCall(s, ff) ==
  TransformReturn(s, ff, Transform(s, ff, Rules, closures, Lookups, env))

\* t.Expand(re, ff...) returned r.
ExpandReturn(r) ==
  /\ Len(closures) < MaxClosures
  /\ closures' = IF r.ok THEN Append(closures, r.cl) ELSE closures
  /\ last' = [op |-> "Expand", ok |-> r.ok, err |-> r.err]
  /\ UNCHANGED <<Handlers, Lookups, Rules, env>>

\* t.Expand(re, ff...), called by the user, who keeps the function.
ExpandNew(re, ff) == ExpandReturn(Expand(re, ff))

\* f(s) returned r, for the function f that is closure i.
InvokeReturn(i, s, r) ==
  /\ closures' = [closures EXCEPT ![i].ff = r.ff]
  /\ last' = [op |-> "Invoke", id |-> i, s |-> s,
              given |-> closures[i].given, lookups |-> Lookups,
              out |-> r.out, err |-> r.err, trace |-> r.trace]
  /\ UNCHANGED <<Handlers, Lookups, Rules, env>>

\* f(s), called by the user, for the function f that is closure i.
Invoke(i, s) == InvokeReturn(i, s, ExpandCall(closures[i], s, Lookups, env))

\* The option Handler(tag, f) applied to t.
Handler(tag, f) ==
  /\ Handlers' = Registered(Handlers, tag, f)
  /\ last' = [op |-> "Handler", tag |-> tag, f |-> f, before |-> Handlers]
  /\ UNCHANGED <<Lookups, Rules, closures, env>>

\* t.ResetHandlers()
ResetHandlers ==
  /\ Handlers' = Builtins
  /\ last' = [op |-> "ResetHandlers", before |-> Handlers]
  /\ UNCHANGED <<Lookups, Rules, closures, env>>

\* The option Lookup(ff...) applied to t.
Lookup(ff) ==
  /\ Len(Lookups) + Len(ff) <= MaxLookups
  /\ Lookups' = Lookups \o ff
  /\ last' = [op |-> "Lookup"]
  /\ UNCHANGED <<Handlers, Rules, closures, env>>

\* t.ResetLookups(ff...)
ResetLookups(ff) ==
  /\ Lookups' = ff
  /\ last' = [op |-> "ResetLookups"]
  /\ UNCHANGED <<Handlers, Rules, closures, env>>

\* ExpandEnv once its rule parsed to r; it panics when r holds an error.
ExpandEnvParsed(r) ==
  /\ r.err = NilErr
  /\ Len(r.cls) <= MaxClosures
  /\ Len(Rules) < MaxRules
  /\ Len(Lookups) < MaxLookups
  /\ Rules' = Append(Rules, r.f)
  /\ Lookups' = Append(Lookups, LookupEnv)
  /\ closures' = r.cls
  /\ last' = [op |-> "ExpandEnv"]
  /\ UNCHANGED <<Handlers, env>>

\* The option ExpandEnv() applied to t.
ExpandEnv ==
  ExpandEnvParsed(ParseStringRule(TagExpand \o <<":">> \o ShellVar, Handlers, closures))

\* t.ParseStringRule(rule) returned r.
ParseStringRuleReturn(rule, r) ==
  /\ Len(r.cls) <= MaxClosures
  /\ closures' = r.cls
  /\ last' = [op |-> "ParseStringRule", rule |-> rule, f |-> r.f, err |-> r.err,
              before |-> <<Handlers, Lookups, Rules>>]
  /\ UNCHANGED <<Handlers, Lookups, Rules, env>>

\* t.ParseStringRule(rule), called by the user.
ParseStringRuleCall(rule) ==
  ParseStringRuleReturn(rule, ParseStringRule(rule, Handlers, closures))

\* t.AddStringRules(rules...) returned r.
AddStringRulesReturn(rules, r) ==
  /\ Len(r.rules) <= MaxRules
  /\ Len(r.cls) <= MaxClosures
  /\ Rules' = r.rules
  /\ closures' = r.cls
  /\ last' = [op |-> "AddStringRules", rules |-> rules, before |-> Rules,
              err |-> r.err, parsed |-> r.parsed]
  /\ UNCHANGED <<Handlers, Lookups, env>>

\* t.AddStringRules(rules...), called by the user.
AddStringRulesCall(rules) ==
  AddStringRulesReturn(rules, AddStringRules(rules, Handlers, Rules, closures))

---------------------------------------------------------------------------
(* The pipeline: rules are appended and reset, and strings transformed.    *)

\* The functions the caller can pass are those that exist.
Known(ff) ==
  \A i \in DOMAIN ff : ff[i].kind = "Expand" => ff[i].id \in DOMAIN closures

RuleArgs ==
  {<<NilFn>>, <<Fn("Upcase")>>, <<Fn("Trim"), UserFn(2)>>, <<ExpandFn(1)>>}

ResetArgs == {<<>>, <<Fn("Upcase"), UserFn(1), Fn("Downcase")>>}

TransformArgs ==
  {<<>>, <<NilFn>>,
   <<Fn("Upcase"), UserFn(1), Fn("Downcase")>>,
   <<Fn("Trim"), UserFn(2), Fn("Upcase")>>,
   <<Fn("Downcase"), NilFn, Fn("Capitalize")>>,
   <<Fn("Capitalize"), Fn("NOP"), Fn("Downcase")>>,
   <<Fn("Trim"), ExpandFn(1), Fn("Upcase")>>,
   <<NilFn, UserFn(3), UserFn(2), UserFn(1), UserFn(3)>>}

PipelineExpandArgs ==
  {<<Compile(ShellVar).re,
     <<LookupHandlers([k \in {<<"X">>} |-> <<"v">>])>>>>}

PipelineInputs ==
  {<<>>, <<" ">>, <<"a", "b", "c">>, <<" ", "h", "I", "\t">>,
   <<" ", "$", "{", "X", "}", "b">>, <<"$", "{", "z", "}", " ">>}

NextPipeline ==
  \/ \E ff \in {x \in RuleArgs : Known(x)} : Rule(ff)
  \/ \E ff \in ResetArgs : ResetRules(ff)
  \/ \E a \in PipelineExpandArgs : ExpandNew(a[1], a[2])
  \/ \E s \in PipelineInputs, ff \in {x \in TransformArgs : Known(x)} :
       TransformCall(s, ff)

SpecPipeline == Init /\ [][NextPipeline]_vars

\* The sequence a recorded Transform call had to run.
EffectiveOfLast == IF last.ff # <<>> THEN last.ff ELSE last.rules

RECURSIVE After(_, _, _)
\* The string after the non-nil functions among the first k of eff ran on s.
After(eff, k, s) ==
  IF k = 0 THEN s
  ELSE LET before == After(eff, k - 1, s)
       IN IF eff[k] = NilFn THEN before
          ELSE CallFn(eff[k], before, closures, Lookups, env).out

\* The error function k of eff returns on what the functions before it left.
ErrorAt(eff, k, s) ==
  IF eff[k] = NilFn THEN NilErr
  ELSE CallFn(eff[k], After(eff, k - 1, s), closures, Lookups, env).err

\* The position of the first function to return an error, if any.
FirstFailure(eff, s) ==
  {i \in 1..Len(eff) :
     /\ ErrorAt(eff, i, s) # NilErr
     /\ \A j \in 1..(i - 1) : ErrorAt(eff, j, s) = NilErr}

\* C1: when the function at position i is the first to return an error,
\* Transform invokes no function at a position after i and returns that
\* error wrapped with the context "rule", together with the empty string.
C1_ShortCircuit ==
  last.op = "Transform" =>
    \A i \in FirstFailure(EffectiveOfLast, last.s) :
      /\ i \in Range(last.calls)
      /\ \A j \in Range(last.calls) : j <= i
      /\ last.err = Wrap(ErrorAt(EffectiveOfLast, i, last.s), "rule", <<>>)
      /\ last.err.ctx = <<[msg |-> "rule", arg |-> <<>>]>>
      /\ last.out = <<>>

\* [Upcase, <always fails>, Downcase] on "abc": Downcase never ran.
C1_Witness ==
  /\ last.op = "Transform"
  /\ last.s = <<"a", "b", "c">>
  /\ EffectiveOfLast = <<Fn("Upcase"), UserFn(1), Fn("Downcase")>>
  /\ last.calls = <<1, 2>>
  /\ last.err # NilErr

\* C2: when no function fails, Transform returns the left-to-right
\* composition of the non-nil functions of its arguments, or of t.Rules when
\* it has no arguments; an empty sequence returns s.
C2_Composition ==
  (last.op = "Transform" /\ FirstFailure(EffectiveOfLast, last.s) = {}) =>
    /\ last.err = NilErr
    /\ last.out = After(EffectiveOfLast, Len(EffectiveOfLast), last.s)
    /\ EffectiveOfLast = <<>> => last.out = last.s

\* Default rules with a nil entry among them changed the string, while
\* arguments had been run on other calls.
C2_Witness ==
  /\ last.op = "Transform"
  /\ last.ff = <<>>
  /\ Len(last.rules) >= 3
  /\ NilFn \in Range(last.rules)
  /\ last.err = NilErr
  /\ last.out # last.s

---------------------------------------------------------------------------
(* Expansion: the user builds expansion functions and calls them.          *)

VarX == <<"$", "{", "X", "}">>

VarY == <<"$", "{", " ", "Y", "\t", "}">>

VarZ == <<"$", "{", "z", "}">>

ColonXY == <<":", "X", ":", "Y", ":">>

MapA == [k \in {<<"X">>, <<"Y">>} |-> IF k = <<"X">> THEN <<"1">> ELSE VarX]

MapB == [k \in {<<"X">>} |-> <<"2">>]

MapEmpty == [k \in {<<"X">>} |-> <<>>]

MapOne == [k \in {<<"X">>} |-> <<"1">>]

\* The arguments of Expand: a compiled pattern and the lookups.
ExpandArgs ==
  {<<Compile(ShellVar).re, <<>>>>,
   <<Compile(ShellVar).re, <<LookupHandlers(MapB), LookupHandlers(MapA)>>>>,
   <<Compile(ShellVar).re, <<LookupHandlers(MapEmpty), LookupHandlers(MapOne)>>>>,
   <<Compile(ShellVar).re, <<LookupStatic(<<>>), LookupHandlers(MapOne)>>>>,
   <<Compile(ShellVar).re,
     <<LookupEnv, LookupHandlers(MapB), LookupStatic(<<"<", "%", "s", ">">>)>>>>,
   <<Compile(ColonVar).re, <<LookupHandlers(MapA)>>>>,
   <<Compile(NoKeyVar).re, <<LookupHandlers(MapA)>>>>}

Segments == {<<>>, VarX, VarY, VarZ, ColonXY, <<"$", "{", " ", "}">>, <<"$", "{", "X">>}

ExpandInputs == {<<>>} \cup {a \o <<"-">> \o b : a \in Segments, b \in Segments}

NextExpand ==
  \/ \E a \in ExpandArgs : ExpandNew(a[1], a[2])
  \/ \E i \in DOMAIN closures, s \in ExpandInputs : Invoke(i, s)

SpecExpand == Init /\ [][NextExpand]_vars

\* The lookups a recorded call of an expansion function had to use: the ones
\* given to Expand, or t.Lookups when none were given.
UsedLookups == IF last.given # <<>> THEN last.given ELSE last.lookups

\* The matches of the recorded call's pattern in its input.
LastMatches == FindAllStringSubmatchIndex(closures[last.id].re, last.s)

LastKey(i) == Slice(last.s, LastMatches[i][3], LastMatches[i][4])

\* The lookups of ff that report name as found.
FoundIn(ff, name) == {j \in 1..Len(ff) : CallLookup(ff[j], name, env).ok}

FirstFound(ff, name) ==
  CHOOSE j \in FoundIn(ff, name) : \A k \in FoundIn(ff, name) : j <= k

\* The value of the first lookup that reports name found, empty if none does.
ValueFor(ff, name) ==
  IF FoundIn(ff, name) = {} THEN <<>>
  ELSE CallLookup(ff[FirstFound(ff, name)], name, env).v

RECURSIVE Substituted(_, _, _, _)
\* s with the matches k, k - 1, ..., 1 replaced by their values, the last
\* first, so that the offsets of the matches still to replace stay valid.
Substituted(s, ms, ff, k) ==
  IF k = 0 THEN s
  ELSE Substituted(Slice(s, 0, ms[k][1])
                     \o ValueFor(ff, Slice(s, ms[k][3], ms[k][4]))
                     \o Slice(s, ms[k][2], Len(s)),
                   ms, ff, k - 1)

\* The matches of the recorded call whose key resolves to no non-empty value.
Unresolved ==
  {i \in 1..Len(LastMatches) : ValueFor(UsedLookups, LastKey(i)) = <<>>}

\* C3: when every match resolves to a non-empty value, the output is the
\* input with each whole match replaced by the value of its key and the rest
\* copied; an input without a match comes back unchanged, without an error;
\* a value put in is not scanned again.
C3_Expansion ==
  last.op = "Invoke" =>
    /\ LastMatches = <<>> => (last.out = last.s /\ last.err = NilErr)
    /\ (LastMatches # <<>> /\ Unresolved = {}) =>
         /\ last.err = NilErr
         /\ last.out = Substituted(last.s, LastMatches, UsedLookups, Len(LastMatches))

\* Two matches with text around them, both resolved, one to a value that is
\* itself a variable reference, which is still in the output.
C3_Witness ==
  /\ last.op = "Invoke"
  /\ Len(LastMatches) = 2
  /\ last.err = NilErr
  /\ last.out = <<"2", "-">> \o VarX
  /\ FindAllStringSubmatchIndex(closures[last.id].re, last.out) # <<>>

\* C4: if some match resolves to no value, or to the empty value of the first
\* lookup that finds its key, the function returns an error naming the key of
\* the leftmost such match, and the empty string.
C4_AllOrNothing ==
  (last.op = "Invoke" /\ Unresolved # {}) =>
    LET i == CHOOSE i \in Unresolved : \A j \in Unresolved : i <= j
    IN /\ last.err = NewErr("could not resolve variable: ", LastKey(i))
       /\ last.out = <<>>

\* The first match was resolved, the second was not.
C4_Witness ==
  /\ last.op = "Invoke"
  /\ Len(LastMatches) = 2
  /\ Unresolved = {2}
  /\ last.err.arg = <<"z">>
  /\ last.out = <<>>

\* C5: the value used for a key is the value of the first lookup, in list
\* order, that reports it found; no lookup after that one is called; an empty
\* value found first in a map is used too, and fails the expansion.
C5_Precedence ==
  last.op = "Invoke" =>
    /\ Len(last.trace) <= Len(LastMatches)
    /\ \A i \in 1..Len(last.trace) :
         LET e == last.trace[i]
         IN /\ e.key = LastKey(i)
            /\ e.val = ValueFor(UsedLookups, e.key)
            /\ e.consulted = IF FoundIn(UsedLookups, e.key) = {}
                               THEN Len(UsedLookups)
                               ELSE FirstFound(UsedLookups, e.key)
            /\ e.val = <<>> => (last.err # NilErr /\ last.err.arg = e.key)
    /\ last.err = NilErr => Len(last.trace) = Len(LastMatches)

\* A map with an empty value for X in front of a map with a value for X: the
\* empty value was used, and the second map was not asked.
C5_Witness ==
  /\ last.op = "Invoke"
  /\ UsedLookups = <<LookupHandlers(MapEmpty), LookupHandlers(MapOne)>>
  /\ last.trace = <<[key |-> <<"X">>, val |-> <<>>, consulted |-> 1]>>
  /\ last.err # NilErr

\* C6: with the lookups [static source with an empty value, map {X: 1}], the
\* static source does not report X found, and X resolves to 1.
C6_StaticEmptyNotFound ==
  (/\ last.op = "Invoke"
   /\ UsedLookups = <<LookupStatic(<<>>), LookupHandlers(MapOne)>>) =>
    \A i \in 1..Len(last.trace) :
      last.trace[i].key = <<"X">> =>
        /\ last.trace[i].val = <<"1">>
        /\ last.trace[i].consulted = 2
        /\ last.err = NilErr

---------------------------------------------------------------------------
(* The registry: handlers are registered, removed and reset, and rules     *)
(* parsed against the registry.                                            *)

HandlerArgs ==
  {<<<<>>, UserFn(1)>>,
   <<<<"T", "r", "i", "m">>, NilFn>>,
   <<<<"t", "r", "i", "m">>, UserFn(3)>>,
   <<<<"M", "y">>, UserFn(1)>>,
   <<<<"m", "Y">>, UserFn(3)>>,
   <<<<"m", "y">>, NilFn>>,
   <<<<"E", "x", "p", "a", "n", "d">>, UserFn(3)>>,
   <<TagExpand, NilFn>>}

ParseInputs ==
  {<<>>,
   <<":", "x">>,
   <<"t", "r", "i", "m">>,
   <<" ", "T", "r", "i", "m", "\t", ":", "a", ":", "b">>,
   <<"m", "y">>,
   <<" ", "B", "o", "g", "u", "s", ":", "x">>,
   TagExpand,
   <<"E", "x", "p", "a", "n", "d", " ", ":">> \o ShellVar,
   TagExpand \o <<":">> \o ColonVar,
   TagExpand \o <<":">> \o BadRegex,
   TagExpand \o <<":">> \o NoKeyVar}

NextRegistry ==
  \/ \E a \in HandlerArgs : Handler(a[1], a[2])
  \/ ResetHandlers
  \/ \E rule \in ParseInputs : ParseStringRuleCall(rule)

SpecRegistry == Init /\ [][NextRegistry]_vars

\* The offset of the first colon of rule, its length when it has none.
FirstColon(rule) ==
  IF \E i \in 1..Len(rule) : rule[i] = ":"
    THEN (CHOOSE i \in 1..Len(rule) :
            rule[i] = ":" /\ \A j \in 1..(i - 1) : rule[j] # ":") - 1
    ELSE Len(rule)

\* The tag of a rule: the text before its first colon, trimmed and lowercased.
TagOf(rule) == ToLower(TrimSpace(SubSeq(rule, 1, FirstColon(rule))))

\* The argument of a rule with a colon: the text after its first colon.
ArgOf(rule) == SubSeq(rule, FirstColon(rule) + 2, Len(rule))

\* C7: ParseStringRule returns the handler registered under the tag, whatever
\* the argument, also for a handler registered as "expand"; otherwise for the
\* tag "expand" a "missing regex" error without a colon, a wrapped compile
\* error for an invalid expression, an error for an expression without a
\* group named key, else an expansion function; otherwise the error
\* "unknown transform: <tag>".  Handlers, Lookups and Rules stay as they were.
C7_ParseOutcomes ==
  last.op = "ParseStringRule" =>
    LET rule == last.rule
        tag  == TagOf(rule)
    IN /\ last.before = <<Handlers, Lookups, Rules>>
       /\ (last.f = NilFn) # (last.err = NilErr)
       /\ IF tag \in DOMAIN Handlers
            THEN last.f = Handlers[tag] /\ last.err = NilErr
          ELSE IF tag # TagExpand
            THEN last.err = NewErr("unknown transform: ", tag)
          ELSE IF FirstColon(rule) = Len(rule)
            THEN last.err = NewErr("expand: missing regex", <<>>)
          ELSE IF ~Compile(ArgOf(rule)).ok
            THEN /\ last.err.ctx = <<[msg |-> "regexp: ", arg |-> ArgOf(rule)]>>
                 /\ last.err = Wrap(Compile(ArgOf(rule)).err, "regexp: ", ArgOf(rule))
          ELSE IF ~Contains(ArgOf(rule), KeyGroup)
            THEN /\ last.err.ctx = <<>>
                 /\ last.err.arg = ArgOf(rule)
                 /\ last.err.msg # "unknown transform: "
          ELSE /\ last.err = NilErr
               /\ last.f = ExpandFn(Len(closures))
               /\ closures[Len(closures)].re = ArgOf(rule)
               /\ closures[Len(closures)].given = <<>>

\* A handler is registered as "expand", and a rule with the tag expand and an
\* argument got that handler, not an expansion function.
C7_Witness ==
  /\ last.op = "ParseStringRule"
  /\ TagOf(last.rule) = TagExpand
  /\ FirstColon(last.rule) < Len(last.rule)
  /\ TagExpand \in DOMAIN Handlers
  /\ last.f = UserFn(3)

BuiltinTags ==
  {<<>>, <<"n", "o", "p">>, <<"t", "r", "i", "m">>,
   <<"d", "o", "w", "n", "c", "a", "s", "e">>, <<"u", "p", "c", "a", "s", "e">>,
   <<"c", "a", "p", "i", "t", "a", "l", "i", "z", "e">>}

\* C9: a reset leaves exactly the six built-in tags with their built-in
\* functions; a registration with a non-empty tag and a function maps the
\* lowercased tag to it, with a nil function removes the lowercased tag, with
\* the empty tag changes nothing; every other tag stays as it was.  So the
\* registry is always the last reset's built-ins updated by the registrations
\* since, in order.
C9_Registry ==
  /\ last.op = "ResetHandlers" =>
       /\ DOMAIN Handlers = BuiltinTags
       /\ Handlers[<<>>] = Fn("NOP")
       /\ Handlers[<<"n", "o", "p">>] = Fn("NOP")
       /\ Handlers[<<"t", "r", "i", "m">>] = Fn("Trim")
       /\ Handlers[<<"d", "o", "w", "n", "c", "a", "s", "e">>] = Fn("Downcase")
       /\ Handlers[<<"u", "p", "c", "a", "s", "e">>] = Fn("Upcase")
       /\ Handlers[<<"c", "a", "p", "i", "t", "a", "l", "i", "z", "e">>] = Fn("Capitalize")
  /\ last.op = "Handler" =>
       LET k == ToLower(last.tag)
       IN IF last.tag = <<>> THEN Handlers = last.before
          ELSE /\ DOMAIN Handlers \ {k} = DOMAIN last.before \ {k}
               /\ \A x \in DOMAIN Handlers \ {k} : Handlers[x] = last.before[x]
               /\ IF last.f = NilFn THEN k \notin DOMAIN Handlers
                  ELSE k \in DOMAIN Handlers /\ Handlers[k] = last.f
  /\ NilFn \notin Range(Handlers)

\* "trim" had been removed and a custom tag registered; the reset brought the
\* built-in trim back and dropped the custom tag.
C9_Witness ==
  /\ last.op = "ResetHandlers"
  /\ <<"t", "r", "i", "m">> \notin DOMAIN last.before
  /\ <<"m", "y">> \in DOMAIN last.before
  /\ Handlers[<<"t", "r", "i", "m">>] = Fn("Trim")
  /\ <<"m", "y">> \notin DOMAIN Handlers

---------------------------------------------------------------------------
(* Rules from strings: rule strings are added to the default rules.        *)

RulesHandlerArgs ==
  {<<<<"E", "x", "p", "a", "n", "d">>, UserFn(3)>>,
   <<<<"t", "r", "i", "m">>, NilFn>>}

AddArgs ==
  {<<<<>>>>,
   <<<<"t", "r", "i", "m", ",", " ", "u", "p", "c", "a", "s", "e">>>>,
   <<<<" ", "t", "r", "i", "m", " ", ",", ",", " ", "U", "P", "C", "A", "S", "E", " ">>,
     <<"b", "o", "g", "u", "s", ",", "n", "o", "p">>>>,
   <<TagExpand \o <<":">> \o ShellVar \o <<",", "n", "o", "p">>>>,
   <<<<"n", "o", "p", ",", " ", "\t", ",">>, TagExpand \o <<",", "t", "r", "i", "m">>>>}

NextRules ==
  \/ \E a \in RulesHandlerArgs : Handler(a[1], a[2])
  \/ \E ff \in ResetArgs : ResetRules(ff)
  \/ \E rules \in AddArgs : AddStringRulesCall(rules)

SpecRules == Init /\ [][NextRules]_vars

Commas(r) == {i \in 1..Len(r) : r[i] = ","}

\* The position of the k-th comma of r; 0 before the first, Len(r) + 1 after
\* the last.
CommaAt(r, k) ==
  IF k = 0 THEN 0
  ELSE IF k > Cardinality(Commas(r)) THEN Len(r) + 1
  ELSE CHOOSE i \in Commas(r) : Cardinality({j \in Commas(r) : j < i}) = k - 1

\* The comma-separated pieces of r, left to right.
Pieces(r) ==
  [k \in 1..(Cardinality(Commas(r)) + 1) |->
     SubSeq(r, CommaAt(r, k - 1) + 1, CommaAt(r, k) - 1)]

RECURSIVE AllPieces(_, _)
\* The pieces of the first n arguments, first to last.
AllPieces(rules, n) ==
  IF n = 0 THEN <<>> ELSE AllPieces(rules, n - 1) \o Pieces(rules[n])

NotEmpty(s) == s # <<>>

\* The sub-rules of a call that are not empty once trimmed, trimmed.
SubRulesOf(rules) ==
  LET all == AllPieces(rules, Len(rules))
  IN SelectSeq([i \in 1..Len(all) |-> TrimSpace(all[i])], NotEmpty)

\* What tells two functions apart: for an expansion function its pattern and
\* the lookups it was given, for any other the function itself.
Described(f, cls) ==
  IF f.kind = "Expand" THEN <<"Expand", cls[f.id].re, cls[f.id].given>> ELSE <<f>>

\* C8: AddStringRules parses the non-empty trimmed sub-rules in order; it
\* appends one function for each up to the first that does not parse, whose
\* error it returns, leaving the functions appended before it and parsing no
\* later sub-rule; when all parse, it appends one function for each.
C8_AddStringRules ==
  last.op = "AddStringRules" =>
    LET subs   == SubRulesOf(last.rules)
        Try(j) == ParseStringRule(subs[j], Handlers, <<>>)
        bad    == {j \in 1..Len(subs) : Try(j).err # NilErr}
        n      == IF bad = {} THEN Len(subs)
                  ELSE (CHOOSE j \in bad : \A k \in bad : j <= k) - 1
    IN /\ Len(Rules) = Len(last.before) + n
       /\ SubSeq(Rules, 1, Len(last.before)) = last.before
       /\ \A j \in 1..n :
            Described(Rules[Len(last.before) + j], closures)
              = Described(Try(j).f, Try(j).cls)
       /\ last.err = IF bad = {} THEN NilErr ELSE Try(n + 1).err
       /\ last.parsed = SubSeq(subs, 1, IF bad = {} THEN n ELSE n + 1)

\* Rules were there; " trim ,, UPCASE " and "bogus,nop" added trim and upcase,
\* failed on bogus and never parsed nop.
C8_Witness ==
  /\ last.op = "AddStringRules"
  /\ Len(last.rules) = 2
  /\ last.before # <<>>
  /\ Rules = last.before \o <<Fn("Trim"), Fn("Upcase")>>
  /\ last.err = NewErr("unknown transform: ", <<"b", "o", "g", "u", "s">>)
  /\ Len(last.parsed) = 3

---------------------------------------------------------------------------
(* Default lookups: expansion functions built without lookups are called   *)
(* while t.Lookups changes.                                                *)

DefaultLookupArgs == {<<LookupHandlers(MapOne)>>, <<LookupHandlers(MapB)>>}

DefaultResetArgs == {<<>>, <<LookupHandlers(MapB)>>}

DefaultInputs == {<<"-">>, VarX, VarX \o <<"-">> \o VarZ}

NextDefault ==
  \/ ExpandEnv
  \/ \E rule \in {TagExpand \o <<":">> \o ShellVar} : ParseStringRuleCall(rule)
  \/ \E ff \in DefaultLookupArgs : Lookup(ff)
  \/ \E ff \in DefaultResetArgs : ResetLookups(ff)
  \/ \E i \in DOMAIN closures, s \in DefaultInputs : Invoke(i, s)
  \/ \E s \in DefaultInputs : TransformCall(s, <<>>)

SpecDefault == Init /\ [][NextDefault]_vars

\* C10: a call of an expansion function built without lookups resolves each
\* key against t.Lookups as it is at that call.
C10_CurrentLookups ==
  (last.op = "Invoke" /\ last.given = <<>>) =>
    \A i \in 1..Len(last.trace) :
      last.trace[i].val = ValueFor(last.lookups, last.trace[i].key)

=============================================================================
